---- MODULE Spec2Model ----
(***************************************************************************)
(* Model of Dataset_Pre-processor_Streamlit.py: the image operations       *)
(* (remove_bg_and_square, apply_brightness, resize_image, save_image,      *)
(* process_one) as operators, and the Streamlit script (sidebar, session   *)
(* state, the Run block with its per-file loop and cleanup) as a state     *)
(* machine.  Every user interaction is one rerun of the script.            *)
(*                                                                         *)
(* Floats: w / src_ratio, h * src_ratio and w * scale are modelled as      *)
(* exact rationals rounded half-to-even (Python round).  A double differs  *)
(* from the exact quotient only by rounding error, which changes the       *)
(* result of round() only when the exact value is a tie k + 1/2; there the *)
(* parameter fp (0 or 1) stands for the direction the double falls.        *)
(***************************************************************************)
EXTENDS Integers, Sequences, FiniteSets, TLC

\* ------------------------------------------------------------------ bounds
MaxDim == 6          \* largest source width/height drawn for the image operations
MaxTarget == 5       \* largest target width/height/square size drawn
MaxPad == 1          \* largest padding drawn for the image operations
MaxLeftDirs == 1     \* temporary directories left behind, per session

\* --------------------------------------------------------------- constants
BrightDen == 20      \* brightness is a multiple of 0.05: factor = n / BrightDen
OpaqueAlpha == 255
SquareSizeMin == 32

\* ----------------------------------------------------------------- helpers
Max(a, b) == IF a >= b THEN a ELSE b
Min(a, b) == IF a <= b THEN a ELSE b

\* int(round(n / d)) for n >= 0, d > 0: Python rounds half to even; fp is the
\* direction of the floating-point error at an exact tie.
Round(n, d, fp) ==
    LET q == n \div d
        r == n % d
    IN  IF 2 * r < d THEN q
        ELSE IF 2 * r > d THEN q + 1
        ELSE q + fp

\* int(round(pct / 100 * 255)): pct/100*255 is exact at the ties that occur
\* (pct = 50 gives 127.5), so round goes to the even neighbour.
AlphaOf(pct) ==
    LET q == (pct * 255) \div 100
        r == (pct * 255) % 100
    IN  IF 2 * r < 100 THEN q
        ELSE IF 2 * r > 100 THEN q + 1
        ELSE IF q % 2 = 0 THEN q ELSE q + 1

\* --------------------------------------------------------------- PIL images
\* An image: size, colour mode, one representative pixel value, and the
\* transforms that produced it, oldest first.
Img(w, h, mode, px) == [w |-> w, h |-> h, mode |-> mode, px |-> px, hist |-> <<>>]
NoImage == [w |-> 0, h |-> 0, mode |-> "none", px |-> 0, hist |-> <<>>]

Ok(img) == [ok |-> TRUE, img |-> img, err |-> ""]
Raise(msg) == [ok |-> FALSE, img |-> NoImage, err |-> msg]

\* Image.convert("RGBA") / convert("RGB")
convert(img, mode) == [img EXCEPT !.mode = mode]

\* Image.resize((w, h), LANCZOS): ValueError unless both are positive
pil_resize(img, w, h) ==
    IF w < 1 \/ h < 1 THEN Raise("height and width must be > 0")
    ELSE Ok([img EXCEPT !.w = w, !.h = h])

\* rembg.remove: same size, RGBA
remove(img) == [img EXCEPT !.mode = "RGBA"]

\* ImageOps.expand(out, border=pad)
expand(img, pad) == [img EXCEPT !.w = @ + 2 * pad, !.h = @ + 2 * pad]

\* ImageEnhance.Brightness(img).enhance(factor): blend with black, clipped
enhance(img, factor) ==
    [img EXCEPT !.px = Min(255, (@ * factor) \div BrightDen)]

\* ------------------------------------------------- remove_bg_and_square
\* lines 147-155: the subject's size on a custom-size square canvas
MutSquareSubject(w, h, square_size, no_upscale, fp) ==
    LET target == square_size
        m == Max(w, h)
    IN  IF target # m
        THEN <<Max(1, Round(w * target, m, fp)), Max(1, Round(h * target, m, fp))>>
        ELSE <<w, h>>

SquareSubject(w, h, square_size, no_upscale, fp) ==
    LET target == square_size
        m == Max(w, h)              \* scale = min(target/w, target/h) = target/m
        lt1 == target < m           \* scale < 1
        gt1 == target > m           \* scale > 1
    IN  IF lt1 \/ (gt1 /\ ~no_upscale)
        THEN LET useScale == lt1 \/ ~no_upscale      \* else use_scale = 1.0
                 new_w == IF useScale THEN Max(1, Round(w * target, m, fp)) ELSE Max(1, w)
                 new_h == IF useScale THEN Max(1, Round(h * target, m, fp)) ELSE Max(1, h)
             IN  <<new_w, new_h>>
        ELSE <<w, h>>

\* the paste offset of a w x h subject on a side x side canvas (lines 157, 162)
PasteOffset(side, w, h) == <<(side - w) \div 2, (side - h) \div 2>>

\* lines 144-163: the square canvas and the subject pasted on it
Placed(side, sub) ==
    [cw |-> side, ch |-> side, w |-> sub[1], h |-> sub[2],
     ox |-> PasteOffset(side, sub[1], sub[2])[1],
     oy |-> PasteOffset(side, sub[1], sub[2])[2]]

MutSquareCanvas(w, h, square_size, no_upscale, fp) ==
    IF square_size > 0
    THEN Placed(square_size, SquareSubject(w, h, square_size, no_upscale, fp))
    ELSE [cw |-> w, ch |-> h, w |-> w, h |-> h, ox |-> 0, oy |-> 0]

SquareCanvas(w, h, square_size, no_upscale, fp) ==
    IF square_size > 0
    THEN Placed(square_size, SquareSubject(w, h, square_size, no_upscale, fp))
    ELSE Placed(Max(w, h), <<w, h>>)

\* lines 166-173: the colour mode after compositing onto the background
MutCompositeMode(bg_mode, bg_a) ==
    IF bg_mode = "white" THEN "RGB"
    ELSE IF bg_mode = "custom" THEN "RGB"
    ELSE "RGBA"

CompositeMode(bg_mode, bg_a) ==
    IF bg_mode = "white" THEN "RGB"
    ELSE IF bg_mode = "custom" THEN (IF bg_a = OpaqueAlpha THEN "RGB" ELSE "RGBA")
    ELSE "RGBA"

\* lines 144-163 on the padded image, then lines 165-175
SquareAndComposite(padded, c, bg_mode, bg_a, square) ==
    [padded EXCEPT !.w = IF square THEN c.cw ELSE @,
                   !.h = IF square THEN c.ch ELSE @,
                   !.mode = CompositeMode(bg_mode, bg_a),
                   !.hist = Append(@, "bg")]

\* lines 137-142: convert, remove the background, pad
Padded(img, pad) ==
    IF pad > 0 THEN expand(remove(convert(img, "RGBA")), pad)
    ELSE remove(convert(img, "RGBA"))

SquareOf(padded, bg_mode, bg_a, square, square_size, no_upscale, fp) ==
    SquareAndComposite(padded,
                       SquareCanvas(padded.w, padded.h, square_size, no_upscale, fp),
                       bg_mode, bg_a, square)

remove_bg_and_square(img, bg_mode, bg_a, pad, square, square_size, no_upscale, fp) ==
    SquareOf(Padded(img, pad), bg_mode, bg_a, square, square_size, no_upscale, fp)

\* ------------------------------------------------------ apply_brightness
MutApplyBrightness(img, factor) ==
    [enhance(img, factor + 1) EXCEPT !.hist = Append(@, "brightness")]

apply_brightness(img, factor) ==
    IF factor = BrightDen THEN img
    ELSE [enhance(img, factor) EXCEPT !.hist = Append(@, "brightness")]

\* ---------------------------------------------------------- resize_image
\* lines 197-204: make_canvas
CanvasMode(bg_mode, bg_a) ==
    IF bg_mode = "transparent" THEN "RGBA"
    ELSE IF bg_mode = "white" THEN "RGB"
    ELSE IF bg_a = OpaqueAlpha THEN "RGB"
    ELSE "RGBA"

\* lines 225-227: the mode of the cropped result
CropMode(bg_mode, bg_a) ==
    IF bg_mode = "white" \/ (bg_mode = "custom" /\ bg_a = OpaqueAlpha) THEN "RGB"
    ELSE "RGBA"

\* lines 194-195, 207-210, 218-221: <<new_w, new_h>> of the aspect-keeping
\* modes; src_ratio > dst_ratio is src_w * h > w * src_h
ScaledDims(src_w, src_h, w, h, mode, fp) ==
    LET wide == src_w * h > w * src_h
        narrow == src_w * h < w * src_h
        byWidth == <<w, Round(w * src_h, src_w, fp)>>
        byHeight == <<Round(h * src_w, src_h, fp), h>>
    IN  IF mode = "keep_aspect_pad"
        THEN (IF wide THEN byWidth ELSE byHeight)
        ELSE (IF narrow THEN byWidth ELSE byHeight)

\* lines 212-215 and 223-227: the resized image on the canvas, or cropped
Fitted(resized, w, h, mode, bg_mode, bg_a) ==
    IF ~resized.ok THEN resized
    ELSE Ok([resized.img EXCEPT
               !.w = w, !.h = h,
               !.mode = IF mode = "keep_aspect_pad" THEN CanvasMode(bg_mode, bg_a)
                        ELSE CropMode(bg_mode, bg_a),
               !.hist = Append(@, "resize")])

\* lines 211 and 222
ScaledTo(rgba, nd) == pil_resize(rgba, nd[1], nd[2])

\* line 189
Stretched(r) == IF r.ok THEN Ok([r.img EXCEPT !.hist = Append(@, "resize")]) ELSE r

resize_image(img, enable, w, h, mode, bg_mode, bg_a, fp) ==
    IF ~enable \/ w <= 0 \/ h <= 0 THEN Ok(img)
    ELSE IF mode = "stretch" THEN Stretched(pil_resize(img, w, h))
    ELSE IF mode \in {"keep_aspect_pad", "keep_aspect_crop"}
    THEN Fitted(ScaledTo(convert(img, "RGBA"),
                         ScaledDims(img.w, img.h, w, h, mode, fp)),
                w, h, mode, bg_mode, bg_a)
    ELSE Ok(img)

\* ------------------------------------------------------------ save_image
\* str.lower() on the suffixes that occur
Lower(sfx) ==
    CASE sfx = ".PNG" -> ".png"
      [] sfx = ".JPG" -> ".jpg"
      [] sfx = ".BMP" -> ".bmp"
      [] OTHER -> sfx

VALID_EXTS == {".jpg", ".jpeg", ".png", ".webp", ".bmp", ".tiff", ".tif",
               ".JPG", ".JPEG", ".PNG", ".WEBP", ".BMP", ".TIFF", ".TIF"}

\* lines 234-240: the suffix the file is written with
MutSaveSuffix(mode, sfx) ==
    IF mode = "RGBA"
    THEN (IF Lower(sfx) \notin {".png", ".webp", ".jpg"} THEN ".png" ELSE sfx)
    ELSE (IF Lower(sfx) \notin {".jpg", ".jpeg", ".png", ".webp"} THEN ".jpg" ELSE sfx)

SaveSuffix(mode, sfx) ==
    IF mode = "RGBA"
    THEN (IF Lower(sfx) \notin {".png", ".webp"} THEN ".png" ELSE sfx)
    ELSE (IF Lower(sfx) \notin {".jpg", ".jpeg", ".png", ".webp"} THEN ".jpg" ELSE sfx)

\* Image.save of an image opened lazily by Image.open and never loaded, after
\* the with block has closed its file, raises; every transform loads.
save_image(out_img, out_path, lazy) ==
    IF lazy THEN [ok |-> FALSE, path |-> out_path, err |-> "closed image"]
    ELSE [ok |-> TRUE,
          path |-> [out_path EXCEPT !.suffix = SaveSuffix(out_img.mode, @)],
          err |-> ""]

\* ----------------------------------------------------------- process_one
\* a path: root directory, and below it directory, stem and suffix
PathOf(root, f) == [root |-> root, dir |-> f.dir, stem |-> f.stem, suffix |-> f.suffix]
NoPath == [root |-> "", dir |-> "", stem |-> "", suffix |-> ""]

Failed(in_path, msg) ==
    [in_path |-> in_path, out_path |-> NoPath, ok |-> FALSE, err |-> msg, img |-> NoImage]

\* lines 264-276: the transforms of one operation, on the decoded image
BgStep(img, a, fp) ==
    remove_bg_and_square(img, a.bg_mode, a.bg_a, a.pad, a.square, a.square_size,
                         a.no_upscale, fp)

ResizeStep(img, a, fp) ==
    resize_image(img, TRUE, a.target_w, a.target_h, a.resize_mode, a.bg_mode, a.bg_a, fp)

MutTransform(base, a, fp) ==
    IF a.operation = "bg_only" THEN Ok(BgStep(base, a, fp))
    ELSE IF a.operation = "resize_only" THEN ResizeStep(base, a, fp)
    ELSE IF a.operation = "brightness_only" THEN Ok(apply_brightness(base, a.brightness))
    ELSE IF a.enable_resize
    THEN ResizeStep(BgStep(apply_brightness(base, a.brightness), a, fp), a, fp)
    ELSE Ok(BgStep(apply_brightness(base, a.brightness), a, fp))

Transform(base, a, fp) ==
    IF a.operation = "bg_only" THEN Ok(BgStep(base, a, fp))
    ELSE IF a.operation = "resize_only" THEN ResizeStep(base, a, fp)
    ELSE IF a.operation = "brightness_only" THEN Ok(apply_brightness(base, a.brightness))
    ELSE IF a.enable_resize
    THEN ResizeStep(apply_brightness(BgStep(base, a, fp), a.brightness), a, fp)
    ELSE Ok(apply_brightness(BgStep(base, a, fp), a.brightness))

\* line 262: the image the transforms start from
Decode(f) ==
    Img(f.w, f.h, IF f.mode \notin {"RGB", "RGBA"} THEN "RGBA" ELSE f.mode, f.px)

\* line 278-279: save the result and report it
Saved(in_path, t, s) ==
    IF ~s.ok THEN Failed(in_path, s.err)
    ELSE [in_path |-> in_path, out_path |-> s.path, ok |-> TRUE, err |-> "", img |-> t.img]

\* lines 261-279: the result t of the transforms of the decoded image base;
\* base itself comes back only from a file Image.open left unloaded
Finished(f, in_path, out_path, base, t) ==
    IF ~t.ok THEN Failed(in_path, t.err)
    ELSE Saved(in_path, t,
               save_image(t.img, out_path, f.mode \in {"RGB", "RGBA"} /\ t.img = base))

process_one(f, in_root, out_root, a, fp) ==
    IF ~f.readable THEN Failed(PathOf(in_root, f), "cannot identify image file")
    ELSE Finished(f, PathOf(in_root, f), PathOf(out_root, f), Decode(f),
                  Transform(Decode(f), a, fp))

\* ------------------------------------------------------------ file system
\* a directory: a folder of the user, or one made by tempfile.mkdtemp (name is
\* the prefix, n tells two of them apart); data names what it holds
UserDir(name, data) == [kind |-> "user", name |-> name, n |-> 0, data |-> data]
TmpDir(prefix, n, data) == [kind |-> "tmp", name |-> prefix, n |-> n, data |-> data]
NoDir == [kind |-> "none", name |-> "", n |-> 0, data |-> ""]

File(dir, stem, suffix, mode, w, h, px, readable) ==
    [dir |-> dir, stem |-> stem, suffix |-> suffix, mode |-> mode,
     w |-> w, h |-> h, px |-> px, readable |-> readable]

\* the files below a directory, in the order rglob yields them
Dataset(data) ==
    CASE data = "photos" ->
           << File("", "cat", ".PNG", "RGBA", 64, 32, 100, TRUE),
              File("", "notes", ".txt", "none", 0, 0, 0, FALSE),
              File("sub", "dog", ".bmp", "RGB", 10, 400, 200, TRUE),
              File("sub", "bad", ".jpg", "RGB", 8, 8, 0, FALSE),
              File("sub", "dog", ".jpg", "RGB", 40, 40, 50, TRUE) >>
      [] data = "scans" ->
           << File("", "x", ".jpg", "L", 32, 32, 120, TRUE),
              File("", "x", ".webp", "RGBA", 16, 48, 255, TRUE) >>
      [] data = "drive" ->
           << File("d", "leaf", ".tif", "RGB", 48, 16, 90, TRUE) >>
      [] data = "docs" ->
           << File("", "readme", ".txt", "none", 0, 0, 0, FALSE) >>
      [] OTHER -> << >>

InputFolders == {UserDir("dirA", "photos"), UserDir("dirDocs", "docs")}
OutputFolders == {UserDir("outDir", "")}
\* uploads: the data a ZIP extracts to; "corrupt" is a .zip that is no archive
ZipUploads == {"scans", "corrupt"}

IsImage(f) == Lower(f.suffix) \in VALID_EXTS

\* lines 72-78
MutListImages(root, ds) ==
    IF root \notin ds THEN << >>
    ELSE Dataset(root.data)

list_images(root, ds) ==
    IF root \notin ds THEN << >>
    ELSE SelectSeq(Dataset(root.data), IsImage)

\* tempfile.mkdtemp: a directory that does not exist yet
TmpIds == 1..(MaxLeftDirs + 2)
mkdtemp(prefix, data, ds) ==
    TmpDir(prefix,
           CHOOSE n \in TmpIds : (\A d \in ds : d.kind = "tmp" => d.n # n)
                                 /\ (\A m \in TmpIds : m < n => \E d \in ds : d.kind = "tmp" /\ d.n = m),
           data)

TmpDirs(ds) == {d \in ds : d.kind = "tmp"}

\* ------------------------------------------------- widgets and parameters
\* lines 421-423: the fallbacks of hidden sections
Defaults ==
    [bg_mode |-> "transparent", bg_a |-> 0, pad |-> 0, square |-> FALSE,
     square_size |-> 0, no_upscale |-> TRUE, brightness |-> BrightDen,
     enable_resize |-> FALSE, target_w |-> 0, target_h |-> 0,
     resize_mode |-> "keep_aspect_pad"]

\* lines 442-457 and 497-512: Background & Canvas section
BgSection(W) ==
    [bg_mode |-> IF W.bg_choice = "transparent" THEN "transparent"
                 ELSE IF W.bg_choice = "white" THEN "white" ELSE "custom",
     bg_a |-> IF W.bg_choice = "transparent" THEN 0
              ELSE IF W.bg_choice = "white" THEN 255 ELSE AlphaOf(W.bg_alpha_pct),
     pad |-> W.pad,
     square |-> W.square,
     square_size |-> IF W.square /\ W.sq_custom THEN W.square_size_val ELSE 0,
     no_upscale |-> IF W.square /\ W.sq_custom THEN W.no_upscale ELSE TRUE]

\* lines 425-534: the script's variables after the section of the operation
ScriptVars(W) ==
    LET bg == BgSection(W)
        op == [operation |-> W.operation_key]
    IN  IF W.operation_key = "bg_only"
        THEN op @@ bg @@ Defaults
        ELSE IF W.operation_key = "resize_only"
        THEN op @@ [enable_resize |-> W.enable, target_w |-> W.target_w,
                    target_h |-> W.target_h, resize_mode |-> W.resize_mode] @@ Defaults
        ELSE IF W.operation_key = "brightness_only"
        THEN op @@ [brightness |-> W.brightness] @@ Defaults
        ELSE op @@ bg @@
             [brightness |-> W.brightness,
              enable_resize |-> IF W.square THEN FALSE ELSE W.enable,
              target_w |-> W.target_w, target_h |-> W.target_h,
              resize_mode |-> W.resize_mode] @@ Defaults

\* lines 608-619: the arguments the loop passes to process_one
CallArgs(V) ==
    LET bgop == V.operation \in {"bg_only", "do_all"}
        brop == V.operation \in {"brightness_only", "do_all"}
        rsop == V.operation \in {"resize_only", "do_all"}
    IN  [operation |-> V.operation,
         bg_mode |-> V.bg_mode,
         bg_a |-> V.bg_a,
         pad |-> V.pad,
         square |-> IF bgop THEN V.square ELSE FALSE,
         square_size |-> IF bgop /\ V.square /\ V.square_size > 0 THEN V.square_size ELSE 0,
         no_upscale |-> IF bgop /\ V.square THEN V.no_upscale ELSE TRUE,
         brightness |-> IF brop THEN V.brightness ELSE BrightDen,
         enable_resize |-> IF rsop THEN V.enable_resize ELSE FALSE,
         target_w |-> IF rsop THEN V.target_w ELSE 0,
         target_h |-> IF rsop THEN V.target_h ELSE 0,
         resize_mode |-> IF rsop THEN V.resize_mode ELSE "keep_aspect_pad"]

NoArgs == [operation |-> "none"] @@ Defaults

\* the widget settings a run is started with
HiddenWidgets ==
    [bg_choice |-> "transparent", bg_alpha_pct |-> 100, pad |-> 0, square |-> FALSE,
     sq_custom |-> FALSE, square_size_val |-> 512, no_upscale |-> TRUE,
     brightness |-> BrightDen, enable |-> TRUE, target_w |-> 512, target_h |-> 512,
     resize_mode |-> "keep_aspect_pad"]

BgChoices ==
    {[bg_choice |-> "transparent", bg_alpha_pct |-> 100],
     [bg_choice |-> "white", bg_alpha_pct |-> 100],
     [bg_choice |-> "custom color", bg_alpha_pct |-> 50]}

SquareChoices ==
    {[square |-> FALSE, sq_custom |-> FALSE, square_size_val |-> 512, no_upscale |-> TRUE],
     [square |-> TRUE, sq_custom |-> TRUE, square_size_val |-> SquareSizeMin, no_upscale |-> TRUE]}

ResizeModes == {"keep_aspect_pad", "keep_aspect_crop", "stretch"}

ResizeChoices ==
    {[enable |-> e, target_w |-> 8, target_h |-> 8, resize_mode |-> m] :
        e \in BOOLEAN, m \in ResizeModes}

BrightChoices == {BrightDen, 30}

RunWidgets ==
    {[operation_key |-> "bg_only"] @@ b @@ q @@ HiddenWidgets :
        b \in BgChoices, q \in SquareChoices}
    \cup {[operation_key |-> "resize_only"] @@ r @@ HiddenWidgets : r \in ResizeChoices}
    \cup {[operation_key |-> "brightness_only", brightness |-> f] @@ HiddenWidgets :
            f \in BrightChoices}
    \cup {[operation_key |-> "do_all", brightness |-> 30] @@ b @@ r @@ HiddenWidgets :
            b \in BgChoices, r \in ResizeChoices}

\* ------------------------------------------------------------------ state
VARIABLES
    input_method,       \* the "Pick source" radio
    output_method,      \* the "Save to" radio
    drive_url,          \* the Drive link text input: "", "bad" or "ok"
    chosen_input_dir,   \* st.session_state["chosen_input_dir"], NoDir when absent
    uploaded_zip,       \* st.session_state["uploaded_zip"], "" when absent
    chosen_output_dir,  \* st.session_state["chosen_output_dir"], NoDir when absent
    dirs,               \* the directories that exist
    pc,                 \* where the script is: idle, loop, done, no_input, no_images, crash
    args,               \* the arguments of process_one in this run
    in_root, out_root, out_mode, cleanup_dirs,
    images, idx, successes, failures,
    attempts,           \* the calls of process_one in this run, with their results
    written,            \* the files save_image wrote in this run
    download,           \* the paths in the ZIP offered for download
    fin, fout           \* input and result of an image operation on its own

uivars == <<input_method, output_method, drive_url, chosen_input_dir, uploaded_zip,
            chosen_output_dir>>
runvars == <<args, in_root, out_root, out_mode, cleanup_dirs, images, idx, successes,
             failures, attempts, written, download>>
opvars == <<fin, fout>>
vars == <<uivars, dirs, pc, runvars, opvars>>

NoOp == [op |-> "none"]

InitApp ==
    /\ input_method = "Browse local folder"
    /\ output_method = "Browse local folder"
    /\ drive_url = ""
    /\ chosen_input_dir = NoDir
    /\ uploaded_zip = ""
    /\ chosen_output_dir = NoDir
    /\ dirs = InputFolders \cup OutputFolders
    /\ pc = "idle"
    /\ args = NoArgs
    /\ in_root = NoDir /\ out_root = NoDir /\ out_mode = "" /\ cleanup_dirs = << >>
    /\ images = << >> /\ idx = 0 /\ successes = 0 /\ failures = << >>
    /\ attempts = << >> /\ written = {} /\ download = {}

Init == InitApp /\ fin = NoOp /\ fout = NoOp

\* a rerun starts the script afresh: the previous run's locals are gone
FreshRun ==
    /\ args' = NoArgs
    /\ in_root' = NoDir /\ out_root' = NoDir /\ out_mode' = "" /\ cleanup_dirs' = << >>
    /\ images' = << >> /\ idx' = 0 /\ successes' = 0 /\ failures' = << >>
    /\ attempts' = << >> /\ written' = {} /\ download' = {}

\* lines 369-400: the Drive import, run by every rerun that shows it with a link;
\* dl is what the download gives.  The result: the session's input directory
\* and the directories that exist.
DlOutcomes == {"error", "not_zip", "zip"}
Downloads(method, url) ==
    IF method = "Import from Google Drive" /\ url = "ok" THEN DlOutcomes ELSE {"error"}

DriveImport(method, url, dl, cin, ds) ==
    IF method # "Import from Google Drive" \/ url = "" \/ url = "bad" \/ dl = "error"
    THEN [cin |-> cin, dirs |-> ds]
    ELSE IF dl = "not_zip"
    THEN [cin |-> cin, dirs |-> ds \cup {mkdtemp("input_drive_", "", ds)}]
    ELSE LET tmpdir == mkdtemp("input_drive_", "drive", ds)
         IN  [cin |-> tmpdir, dirs |-> ds \cup {tmpdir}]

\* the bound on directories left behind
DriveAllowed(method, url, dl) ==
    (method = "Import from Google Drive" /\ url = "ok" /\ dl # "error")
        => Cardinality(TmpDirs(dirs)) < MaxLeftDirs

Rerunnable == pc # "loop"

\* ---------------------------------------------------------------- sidebar
\* lines 347-351: the widgets of the other source are no longer shown, and
\* Streamlit drops their values: the link field is empty when shown again
SelectInputMethod(m) ==
    /\ Rerunnable
    /\ m # input_method
    /\ input_method' = m
    /\ drive_url' = ""
    /\ pc' = "idle"
    /\ FreshRun
    /\ UNCHANGED <<output_method, chosen_input_dir, uploaded_zip, chosen_output_dir,
                   dirs, opvars>>

\* lines 354-362; picked = NoDir: the dialog was cancelled
ChooseInputFolder(picked) ==
    /\ Rerunnable
    /\ input_method = "Browse local folder"
    /\ chosen_input_dir' = IF picked # NoDir THEN picked ELSE chosen_input_dir
    /\ pc' = "idle"
    /\ FreshRun
    /\ UNCHANGED <<input_method, output_method, drive_url, uploaded_zip,
                   chosen_output_dir, dirs, opvars>>

\* lines 363-367
UploadZip(up) ==
    /\ Rerunnable
    /\ input_method = "Upload ZIP"
    /\ uploaded_zip' = up
    /\ pc' = "idle"
    /\ FreshRun
    /\ UNCHANGED <<input_method, output_method, drive_url, chosen_input_dir,
                   chosen_output_dir, dirs, opvars>>

\* lines 369-400
EnterDriveLink(url, dl) ==
    /\ Rerunnable
    /\ input_method = "Import from Google Drive"
    /\ DriveAllowed(input_method, url, dl)
    /\ drive_url' = url
    /\ LET r == DriveImport(input_method, url, dl, chosen_input_dir, dirs)
       IN  chosen_input_dir' = r.cin /\ dirs' = r.dirs
    /\ pc' = "idle"
    /\ FreshRun
    /\ UNCHANGED <<input_method, output_method, uploaded_zip, chosen_output_dir, opvars>>

\* line 403
SelectOutputMethod(m, dl) ==
    /\ Rerunnable
    /\ DriveAllowed(input_method, drive_url, dl)
    /\ output_method' = m
    /\ LET r == DriveImport(input_method, drive_url, dl, chosen_input_dir, dirs)
       IN  chosen_input_dir' = r.cin /\ dirs' = r.dirs
    /\ pc' = "idle"
    /\ FreshRun
    /\ UNCHANGED <<input_method, drive_url, uploaded_zip, chosen_output_dir, opvars>>

\* lines 405-416
ChooseOutputFolder(picked, dl) ==
    /\ Rerunnable
    /\ output_method = "Browse local folder"
    /\ DriveAllowed(input_method, drive_url, dl)
    /\ chosen_output_dir' = IF picked # NoDir THEN picked ELSE chosen_output_dir
    /\ LET r == DriveImport(input_method, drive_url, dl, chosen_input_dir, dirs)
       IN  chosen_input_dir' = r.cin /\ dirs' = r.dirs
    /\ pc' = "idle"
    /\ FreshRun
    /\ UNCHANGED <<input_method, output_method, drive_url, uploaded_zip, opvars>>

\* -------------------------------------------------------------- Run block
Range(q) == {q[i] : i \in 1..Len(q)}

\* lines 99-103, 576-577: the extracted upload as the input root
Extracted(tmpdir, ds) ==
    [st |-> "ok", in_root |-> tmpdir, dirs |-> ds \cup {tmpdir}, cleanup |-> <<tmpdir>>]

\* lines 568-577: resolve input; st tells how far the script got
ResolveInput(cin, zip, ds) ==
    IF cin # NoDir
    THEN [st |-> "ok", in_root |-> cin, dirs |-> ds, cleanup |-> << >>]
    ELSE IF zip = ""
    THEN [st |-> "no_input", in_root |-> NoDir, dirs |-> ds, cleanup |-> << >>]
    ELSE IF zip = "corrupt"
    THEN \* line 102: BadZipFile leaves unzip_to_temp and the script
         [st |-> "crash", in_root |-> NoDir,
          dirs |-> ds \cup {mkdtemp("input_zip_", "", ds)}, cleanup |-> << >>]
    ELSE Extracted(mkdtemp("input_zip_", zip, ds), ds)

TempOutput(i, tmpdir) ==
    [st |-> i.st, in_root |-> i.in_root, out_root |-> tmpdir, out_mode |-> "zip",
     dirs |-> i.dirs \cup {tmpdir}, cleanup |-> Append(i.cleanup, tmpdir)]

\* lines 579-586: resolve output
\* the chosen folder put on the cleanup list as well
MutResolveOutput(cout, i) ==
    IF i.st # "ok"
    THEN [st |-> i.st, in_root |-> i.in_root, out_root |-> NoDir, out_mode |-> "",
          dirs |-> i.dirs, cleanup |-> i.cleanup]
    ELSE IF cout # NoDir
    THEN [st |-> i.st, in_root |-> i.in_root, out_root |-> cout, out_mode |-> "folder",
          dirs |-> i.dirs, cleanup |-> Append(i.cleanup, cout)]
    ELSE TempOutput(i, mkdtemp("processed_out_", "", i.dirs))

ResolveOutput(cout, i) ==
    IF i.st # "ok"
    THEN [st |-> i.st, in_root |-> i.in_root, out_root |-> NoDir, out_mode |-> "",
          dirs |-> i.dirs, cleanup |-> i.cleanup]
    ELSE IF cout # NoDir
    THEN [st |-> i.st, in_root |-> i.in_root, out_root |-> cout, out_mode |-> "folder",
          dirs |-> i.dirs, cleanup |-> i.cleanup]
    ELSE TempOutput(i, mkdtemp("processed_out_", "", i.dirs))

\* lines 588-603: the run with its roots resolved (o), up to the loop
StartRun(W, o, imgs) ==
    IF o.st # "ok"
    THEN /\ pc' = o.st
         /\ dirs' = o.dirs
         /\ FreshRun
    ELSE /\ in_root' = o.in_root /\ out_root' = o.out_root
         /\ out_mode' = o.out_mode
         /\ cleanup_dirs' = o.cleanup
         /\ images' = imgs
         /\ idx' = 0 /\ successes' = 0 /\ failures' = << >>
         /\ attempts' = << >> /\ written' = {} /\ download' = {}
         /\ IF imgs = << >>
            THEN \* lines 589-593
                 /\ pc' = "no_images"
                 /\ dirs' = o.dirs \ Range(o.cleanup)
                 /\ args' = NoArgs
            ELSE /\ pc' = "loop"
                 /\ dirs' = o.dirs
                 /\ args' = CallArgs(ScriptVars(W))

Resolved(W, o) == StartRun(W, o, list_images(o.in_root, o.dirs))

\* lines 566-603: Run pressed; the rerun first runs the sidebar again (r)
RunWith(W, r) ==
    /\ chosen_input_dir' = r.cin
    /\ (r.cin = NoDir /\ uploaded_zip = "corrupt")
          => Cardinality(TmpDirs(r.dirs)) < MaxLeftDirs
    /\ Resolved(W, ResolveOutput(chosen_output_dir,
                                 ResolveInput(r.cin, uploaded_zip, r.dirs)))

RunPressed(W, dl) ==
    /\ Rerunnable
    /\ DriveAllowed(input_method, drive_url, dl)
    /\ RunWith(W, DriveImport(input_method, drive_url, dl, chosen_input_dir, dirs))
    /\ UNCHANGED <<input_method, output_method, drive_url, uploaded_zip,
                   chosen_output_dir, opvars>>

\* save_image writes a file, replacing the one at the same path
Write(files, path, img) ==
    {g \in files : g.path # path} \cup {[path |-> path, img |-> img]}

\* lines 621-630: count the result r of process_one on file f
Counted(f, r) ==
    /\ attempts' = Append(attempts, [file |-> f, ok |-> r.ok, out_path |-> r.out_path,
                                     img |-> r.img])
    /\ IF r.ok
       THEN /\ successes' = successes + 1
            /\ written' = Write(written, r.out_path, r.img)
            /\ UNCHANGED failures
       ELSE /\ failures' = Append(failures, <<r.in_path, r.err>>)
            /\ UNCHANGED <<successes, written>>

\* the loop with a failed file ending it
MutProcessNext ==
    /\ pc = "loop"
    /\ idx < Len(images)
    /\ \E fp \in {0, 1} :
          Counted(images[idx + 1], process_one(images[idx + 1], in_root, out_root, args, fp))
    /\ idx' = IF Len(failures') > Len(failures) THEN Len(images) ELSE idx + 1
    /\ UNCHANGED <<uivars, dirs, pc, args, in_root, out_root, out_mode, cleanup_dirs,
                   images, download, opvars>>

\* lines 605-633: one iteration of the loop
ProcessNext ==
    /\ pc = "loop"
    /\ idx < Len(images)
    /\ \E fp \in {0, 1} :
          Counted(images[idx + 1], process_one(images[idx + 1], in_root, out_root, args, fp))
    /\ idx' = idx + 1
    /\ UNCHANGED <<uivars, dirs, pc, args, in_root, out_root, out_mode, cleanup_dirs,
                   images, download, opvars>>

\* lines 635-667: after the loop, the ZIP download and the cleanup
Finish ==
    /\ pc = "loop"
    /\ idx = Len(images)
    /\ download' = IF out_mode = "zip"
                   THEN {g.path : g \in {x \in written : x.path.root = out_root}}
                   ELSE {}
    /\ dirs' = dirs \ Range(cleanup_dirs)
    /\ pc' = "done"
    /\ UNCHANGED <<uivars, args, in_root, out_root, out_mode, cleanup_dirs, images,
                   idx, successes, failures, attempts, written, opvars>>

Next ==
    \/ \E m \in {"Browse local folder", "Upload ZIP", "Import from Google Drive"} :
          SelectInputMethod(m)
    \/ \E picked \in InputFolders \cup {NoDir} : ChooseInputFolder(picked)
    \/ \E up \in ZipUploads : UploadZip(up)
    \/ \E url \in {"", "bad", "ok"} :
          \E dl \in Downloads(input_method, url) : EnterDriveLink(url, dl)
    \/ \E m \in {"Browse local folder", "Download as ZIP"} :
          \E dl \in Downloads(input_method, drive_url) : SelectOutputMethod(m, dl)
    \/ \E picked \in OutputFolders \cup {NoDir} :
          \E dl \in Downloads(input_method, drive_url) : ChooseOutputFolder(picked, dl)
    \/ \E W \in RunWidgets :
          \E dl \in Downloads(input_method, drive_url) : RunPressed(W, dl)
    \/ ProcessNext
    \/ Finish

Spec == Init /\ [][Next]_vars

\* ------------------------------------------- the image operations alone
\* Each operation applied once to inputs drawn from bounded sets, as a caller
\* other than the loop could apply it.
Modes == {"RGB", "RGBA"}
Backgrounds ==
    {[bg_mode |-> "transparent", bg_a |-> 0], [bg_mode |-> "white", bg_a |-> 255],
     [bg_mode |-> "custom", bg_a |-> 255], [bg_mode |-> "custom", bg_a |-> 128],
     [bg_mode |-> "custom", bg_a |-> 0]}

SquareInputs ==
    {[op |-> "square", img |-> Img(w, h, "RGB", 100), pad |-> p, square |-> sq,
      square_size |-> t, no_upscale |-> nu, bg_mode |-> bg.bg_mode, bg_a |-> bg.bg_a] :
        w \in 1..MaxDim, h \in 1..MaxDim, p \in 0..MaxPad, sq \in BOOLEAN,
        t \in 0..MaxTarget, nu \in BOOLEAN, bg \in Backgrounds}

ResizeInputs ==
    {[op |-> "resize", img |-> Img(sw, sh, m, 100), enable |-> e, w |-> w, h |-> h,
      mode |-> rm, bg_mode |-> "transparent", bg_a |-> 0] :
        sw \in 1..MaxDim, sh \in 1..MaxDim, m \in Modes, e \in BOOLEAN,
        w \in 0..MaxTarget, h \in 0..MaxTarget, rm \in ResizeModes}

BrightInputs ==
    {[op |-> "brightness", img |-> Img(2, 3, m, px), factor |-> f] :
        m \in Modes, px \in {0, 1, 100, 200, 255}, f \in 4..50}

PipeInputs ==
    {[op |-> "pipeline", img |-> Img(w, h, m, 100),
      a |-> [operation |-> o, bg_mode |-> bg.bg_mode, bg_a |-> bg.bg_a, pad |-> 0,
             square |-> sq, square_size |-> 0,
             no_upscale |-> TRUE, brightness |-> f, enable_resize |-> e,
             target_w |-> tw, target_h |-> th, resize_mode |-> rm]] :
        w \in {1, MaxDim}, h \in {1, MaxDim}, m \in Modes,
        o \in {"bg_only", "resize_only", "brightness_only", "do_all"},
        sq \in BOOLEAN, f \in BrightChoices, e \in BOOLEAN,
        tw \in {0, MaxTarget}, th \in {1, MaxTarget}, rm \in ResizeModes,
        bg \in Backgrounds}

InitOps ==
    /\ InitApp
    /\ fin \in SquareInputs \cup ResizeInputs \cup BrightInputs \cup PipeInputs
    /\ fout = NoOp

SquareCall ==
    /\ fin.op = "square" /\ fout = NoOp
    /\ \E fp \in {0, 1} :
         fout' = [op |-> "square",
                  img |-> remove_bg_and_square(fin.img, fin.bg_mode, fin.bg_a, fin.pad,
                                               fin.square, fin.square_size,
                                               fin.no_upscale, fp),
                  place |-> SquareCanvas(fin.img.w + 2 * fin.pad, fin.img.h + 2 * fin.pad,
                                         fin.square_size, fin.no_upscale, fp)]
    /\ UNCHANGED <<uivars, dirs, pc, runvars, fin>>

ResizeCall ==
    /\ fin.op = "resize" /\ fout = NoOp
    /\ \E fp \in {0, 1} :
         fout' = [op |-> "resize",
                  res |-> resize_image(fin.img, fin.enable, fin.w, fin.h, fin.mode,
                                       fin.bg_mode, fin.bg_a, fp),
                  dims |-> ScaledDims(fin.img.w, fin.img.h, fin.w, fin.h, fin.mode, fp)]
    /\ UNCHANGED <<uivars, dirs, pc, runvars, fin>>

BrightnessCall ==
    /\ fin.op = "brightness" /\ fout = NoOp
    /\ fout' = [op |-> "brightness", img |-> apply_brightness(fin.img, fin.factor)]
    /\ UNCHANGED <<uivars, dirs, pc, runvars, fin>>

PipelineCall ==
    /\ fin.op = "pipeline" /\ fout = NoOp
    /\ \E fp \in {0, 1} :
         fout' = [op |-> "pipeline", res |-> Transform(fin.img, fin.a, fp)]
    /\ UNCHANGED <<uivars, dirs, pc, runvars, fin>>

NextOps == SquareCall \/ ResizeCall \/ BrightnessCall \/ PipelineCall

SpecOps == InitOps /\ [][NextOps]_vars

TypeOK ==
    /\ pc \in {"idle", "loop", "done", "no_input", "no_images", "crash"}
    /\ idx \in 0..Len(images)


\* ================================================================= claims

\* C1: in a run that reaches the loop, every enumerated image is attempted
\* exactly once and in enumeration order whatever came before; each attempt is
\* either a success or a recorded (source path, message) failure, so after
\* iteration idx successes + len(failures) = idx, and the loop ends only after
\* the last image, where the sum is len(images).
OkAttempt(a) == a.ok
BadAttempt(a) == ~a.ok
C1_FailureDoesNotStopBatch ==
    pc \in {"loop", "done"} =>
        /\ Len(attempts) = idx
        /\ \A i \in 1..idx : attempts[i].file = images[i]
        /\ successes + Len(failures) = idx
        /\ successes = Len(SelectSeq(attempts, OkAttempt))
        /\ LET bad == SelectSeq(attempts, BadAttempt)
           IN  /\ Len(failures) = Len(bad)
               /\ \A j \in 1..Len(bad) :
                     /\ failures[j][1] = PathOf(in_root, bad[j].file)
                     /\ failures[j][2] # ""
        /\ (pc = "done" => idx = Len(images))

C1_Witness ==
    /\ pc = "done"
    /\ \E i, j \in 1..Len(attempts) : i < j /\ ~attempts[i].ok /\ attempts[j].ok

\* C2: a press of Run that finds no input source, or an input root without
\* supported images, ends in an abort with no call of process_one and no file
\* written.
NoSource == chosen_input_dir = NoDir /\ uploaded_zip = ""
ZeroImages == in_root # NoDir /\ \A i \in 1..Len(Dataset(in_root.data)) :
                                    Lower(Dataset(in_root.data)[i].suffix) \notin VALID_EXTS
RunStates == {"loop", "done", "no_input", "no_images", "crash"}
C2_AbortBeforeProcessing ==
    [][ (pc # "loop" /\ pc' \in RunStates /\ (NoSource' \/ ZeroImages'))
          => /\ pc' \in {"no_input", "no_images"}
             /\ attempts' = << >> /\ written' = {} /\ successes' = 0 ]_vars

C2_Witness ==
    /\ pc = "no_images"
    /\ in_root.kind = "user" /\ out_mode = "zip"
    /\ attempts = << >> /\ written = {}

\* C3: resize_image with resizing enabled and a target W, H >= 1 returns an
\* image of exactly W x H in each fit mode, and the scaled dimensions it
\* computes on the way are both >= 1.
C3_ResizeExactSize ==
    (fout.op = "resize" /\ fin.enable /\ fin.w >= 1 /\ fin.h >= 1) =>
        /\ fout.res.ok
        /\ fout.res.img.w = fin.w /\ fout.res.img.h = fin.h
        /\ (fin.mode # "stretch" => fout.dims[1] >= 1 /\ fout.dims[2] >= 1)

\* C4: remove_bg_and_square with square on returns an image whose width equals
\* its height: the longer side of the padded image in auto mode, square_size
\* in custom-size mode, for every padding and background.
C4_SquareIsSquare ==
    (fout.op = "square" /\ fin.square) =>
        /\ fout.img.w = fout.img.h
        /\ fout.img.w = IF fin.square_size > 0 THEN fin.square_size
                        ELSE Max(fin.img.w, fin.img.h) + 2 * fin.pad

C4_Witness ==
    /\ fout.op = "square" /\ fin.square /\ fin.square_size = 0
    /\ fin.img.w < fin.img.h /\ fin.pad > 0
    /\ fout.img.w = fout.img.h

\* C5: "do all" applies background, then brightness, then resize, each to the
\* result of the one before; a single operation applies its own transform only.
Expected(a) ==
    LET bg == <<"bg">>
        br == IF a.brightness # BrightDen THEN <<"brightness">> ELSE << >>
        rs(on) == IF on /\ a.target_w > 0 /\ a.target_h > 0 THEN <<"resize">> ELSE << >>
    IN  CASE a.operation = "bg_only" -> bg
          [] a.operation = "resize_only" -> rs(TRUE)
          [] a.operation = "brightness_only" -> br
          [] a.operation = "do_all" -> bg \o br \o rs(a.enable_resize)
C5_FixedOrder ==
    (fout.op = "pipeline" /\ fout.res.ok) => fout.res.img.hist = Expected(fin.a)

C5_Witness ==
    /\ fout.op = "pipeline" /\ fout.res.ok /\ fin.a.operation = "do_all"
    /\ fout.res.img.hist = <<"bg", "brightness", "resize">>

\* C6: a processed file is written below out_root at the input's relative
\* directory and stem; an RGBA result has a .png or .webp suffix (the input's,
\* else .png), any other result .jpg, .jpeg, .png or .webp (the input's, else
\* .jpg).
C6_MirroredPathAndFormat ==
    \A i \in 1..Len(attempts) :
        attempts[i].ok =>
            LET f == attempts[i].file
                q == attempts[i].out_path
                allowed == IF attempts[i].img.mode = "RGBA"
                           THEN {".png", ".webp"}
                           ELSE {".jpg", ".jpeg", ".png", ".webp"}
                forced == IF attempts[i].img.mode = "RGBA" THEN ".png" ELSE ".jpg"
            IN  /\ q.root = out_root /\ q.dir = f.dir /\ q.stem = f.stem
                /\ \E g \in written : g.path = q
                /\ Lower(q.suffix) \in allowed
                /\ q.suffix = IF Lower(f.suffix) \in allowed THEN f.suffix ELSE forced

C6_Witness ==
    /\ pc = "done"
    /\ \E i, j \in 1..Len(attempts) :
          /\ attempts[i].ok /\ attempts[i].img.mode = "RGBA"
          /\ attempts[i].file.suffix = ".bmp" /\ attempts[i].out_path.suffix = ".png"
          /\ attempts[j].ok /\ attempts[j].file.suffix = ".PNG"
          /\ attempts[j].out_path.suffix = ".PNG"

\* C7: after the background step, alone or followed by brightness and resize,
\* the result is RGB exactly when the background is white or a custom colour
\* with alpha 255, and RGBA otherwise.
OpaqueBackground(a) == a.bg_mode = "white" \/ (a.bg_mode = "custom" /\ a.bg_a = 255)
C7_ModeFollowsBackground ==
    (fout.op = "pipeline" /\ fout.res.ok /\ fin.a.operation \in {"bg_only", "do_all"}) =>
        fout.res.img.mode = IF OpaqueBackground(fin.a) THEN "RGB" ELSE "RGBA"

C7_Witness ==
    /\ fout.op = "pipeline" /\ fout.res.ok /\ fin.a.operation = "do_all"
    /\ fin.a.enable_resize /\ fin.a.resize_mode = "keep_aspect_crop" /\ fin.a.target_w > 0
    /\ fin.a.bg_mode = "custom" /\ fin.a.bg_a = 255
    /\ fout.res.img.mode = "RGB"

\* C8: apply_brightness with factor 1.0 returns an image of the same size, mode
\* and pixel values, and a brightness-only run with factor 1.0 passes on the
\* decoded image.
SamePixels(x, y) == x.w = y.w /\ x.h = y.h /\ x.mode = y.mode /\ x.px = y.px
C8_BrightnessOneIsIdentity ==
    /\ (fout.op = "brightness" /\ fin.factor = BrightDen) => SamePixels(fout.img, fin.img)
    /\ (fout.op = "pipeline" /\ fin.a.operation = "brightness_only"
          /\ fin.a.brightness = BrightDen)
         => fout.res.ok /\ SamePixels(fout.res.img, fin.img)

C8_Witness ==
    /\ fout.op = "brightness" /\ fin.factor = BrightDen
    /\ fin.img.px = 200 /\ fout.img.px = 200

\* C9: when a run has ended (completed, or aborted for want of images) no
\* temporary directory made by the program exists any more.
C9_TempDirsRemoved ==
    pc \in {"done", "no_images"} => TmpDirs(dirs) = {}

\* C10: in custom-size square mode the subject on the T x T canvas measures
\* between 1 and T each way, sits at ((T - w') // 2, (T - h') // 2) with both
\* offsets >= 0 and opposite margins at most a pixel apart, and with no_upscale
\* it is never enlarged and is scaled only when it does not fit in T.
C10_CustomSquarePlacement ==
    (fout.op = "square" /\ fin.square /\ fin.square_size > 0) =>
        LET T == fin.square_size
            w == fin.img.w + 2 * fin.pad
            h == fin.img.h + 2 * fin.pad
            s == fout.place
        IN  /\ s.cw = T /\ s.ch = T
            /\ s.w \in 1..T /\ s.h \in 1..T
            /\ s.ox >= 0 /\ s.oy >= 0
            /\ (T - s.w - s.ox) - s.ox \in {0, 1}
            /\ (T - s.h - s.oy) - s.oy \in {0, 1}
            /\ fin.no_upscale =>
                  /\ s.w <= w /\ s.h <= h
                  /\ (w <= T /\ h <= T) => (s.w = w /\ s.h = h)

C10_Witness ==
    /\ fout.op = "square" /\ fin.square /\ fin.square_size > 0 /\ fin.no_upscale
    /\ fin.img.w + 2 * fin.pad > fin.square_size
    /\ fout.place.w = fin.square_size /\ fout.place.h < fout.place.w
    /\ fout.place.oy > 0

\* C11: in a Resize-only or "do all" run started with the resize Enable option
\* off, every successfully processed image is saved with the dimensions it had
\* before the resize step (the decoded file's in Resize-only, those after
\* background and brightness in "do all").
BeforeResize(f, a, fp) ==
    IF a.operation = "resize_only" THEN Decode(f)
    ELSE apply_brightness(BgStep(Decode(f), a, fp), a.brightness)
C11_ResizeIsOptional ==
    (pc \in {"loop", "done"} /\ args.operation \in {"resize_only", "do_all"}
       /\ ~args.enable_resize) =>
        \A i \in 1..Len(attempts) :
            attempts[i].ok =>
                \E fp \in {0, 1} :
                    /\ attempts[i].img.w = BeforeResize(attempts[i].file, args, fp).w
                    /\ attempts[i].img.h = BeforeResize(attempts[i].file, args, fp).h

\* C12: a run started with "Upload ZIP" selected and a ZIP uploaded reads its
\* images from the directory that ZIP was extracted to, whatever folder was
\* chosen or imported earlier in the session.
C12_InputFollowsMethod ==
    (pc \in {"loop", "done", "no_images"} /\ input_method = "Upload ZIP"
       /\ uploaded_zip \notin {"", "corrupt"}) =>
        /\ in_root.kind = "tmp" /\ in_root.name = "input_zip_"
        /\ in_root.data = uploaded_zip
        /\ images = SelectSeq(Dataset(uploaded_zip), IsImage)

\* C13: a run started with "Download as ZIP" selected writes below a temporary
\* output root, offers what it wrote as the ZIP download and puts nothing into
\* a folder chosen earlier; a run with "Browse local folder" selected and an
\* output folder chosen writes into that folder.
C13_OutputFollowsMethod ==
    /\ (pc \in {"loop", "done"} /\ output_method = "Download as ZIP") =>
          /\ out_root.kind = "tmp" /\ out_root.name = "processed_out_"
          /\ out_mode = "zip"
          /\ \A g \in written : g.path.root.kind = "tmp"
          /\ (pc = "done" => download = {g.path : g \in written})
    /\ (pc \in {"loop", "done"} /\ output_method = "Browse local folder"
          /\ chosen_output_dir # NoDir) =>
          /\ out_root = chosen_output_dir /\ out_mode = "folder"
          /\ \A g \in written : g.path.root = chosen_output_dir

\* C14: within one run no successful image is written to the output path of
\* another, so the files written number the successes.
C14_DistinctOutputs ==
    /\ \A i, j \in 1..Len(attempts) :
          (i # j /\ attempts[i].ok /\ attempts[j].ok)
              => attempts[i].out_path # attempts[j].out_path
    /\ pc \in {"loop", "done"} => Cardinality(written) = successes

\* C15: every directory a step puts on cleanup_dirs is a temporary directory
\* that did not exist before that step (the run made it with mkdtemp), and no
\* step removes a folder of the user: not the abort for want of images, not
\* the cleanup after the loop.
C15_CleanupOnlyOwnTemp ==
    [][ /\ \A d \in Range(cleanup_dirs') :
              /\ d.kind = "tmp"
              /\ d.name \in {"input_zip_", "processed_out_"}
              /\ (d \in Range(cleanup_dirs) \/ d \notin dirs)
        /\ \A d \in dirs : d.kind = "user" => d \in dirs' ]_vars

C15_Witness ==
    /\ pc = "done"
    /\ Len(cleanup_dirs) = 2
    /\ Range(cleanup_dirs) \cap dirs = {}
    /\ InputFolders \cup OutputFolders \subseteq dirs

====
